---- MODULE Spec2Model ----
(***************************************************************************)
(* AgML: the validated parameter stores of agml/synthetic/options.py       *)
(* (Parameters, CanopyParameters, CameraParameters, LiDARParameters,       *)
(* HeliosOptions), the dataset metadata registry of agml/data/metadata.py  *)
(* (DatasetMetadata), train_classification of                              *)
(* agml/models/training/basic_trainers.py and download_dataset of          *)
(* agml/data/publicdata.py.                                                *)
(*                                                                         *)
(* The components do not interact.  Spec is the state machine of the       *)
(* parameter stores, SpecAlias the same with a caller that keeps           *)
(* references, SpecMeta the one of the metadata registry, SpecTrain the    *)
(* calls of train_classification, SpecDownload the steps of                *)
(* download_dataset.                                                       *)
(***************************************************************************)
EXTENDS Integers, Sequences, FiniteSets, TLC

VARIABLES
    opts,      \* the HeliosOptions objects of the program, by slot
    heap,      \* the live Parameters objects, by object id
    raised,    \* the exception the last operation raised (NoExc when it returned)
    last,      \* the last operation and its arguments
    info,      \* the DatasetMetadata objects of the program, by slot
    result,    \* what the last registry operation returned or raised
    mlast,     \* the last registry operation and its arguments
    held,      \* the Parameters object a caller's variable refers to (0: none)
    lists,     \* the contents of the list objects, by list id
    call,      \* the last call of train_classification and how it ended
    dl         \* the download_dataset call in progress and the files it left

ovars == <<opts, heap, raised, last>>
mvars == <<info, result, mlast>>
avars == <<held, lists>>
tvars == <<call>>
dvars == <<dl>>
vars == <<opts, heap, raised, last, info, result, mlast, held, lists, call, dl>>

(***************************************************************************)
(* Bounds                                                                  *)
(***************************************************************************)
MaxInst == 1      \* HeliosOptions objects alive at once
MaxStores == 4    \* Parameters objects the HeliosOptions objects hold at once

(***************************************************************************)
(* Python values.  A value is its runtime type and a payload number.       *)
(***************************************************************************)
Val(t, v) == [t |-> t, v |-> v]
None == Val("NoneType", 0)
True == Val("bool", 1)

\* the values a caller assigns: two numbers, a string, a fresh list of
\* numbers, a pathlib.Path and None
AssignValues ==
    {Val("float", 1), Val("float", 2), Val("str", 2), Val("list", 9),
     Val("Path", 1), None}

\* isinstance(value, annotation): "True", "False", or "raise" when the
\* annotation is a subscripted generic, which Python refuses in isinstance
isinstance(value, annotation) ==
    CASE annotation = "Number" -> IF value.t \in {"float", "int", "bool"} THEN "True" ELSE "False"
      [] annotation = "str" -> IF value.t = "str" THEN "True" ELSE "False"
      [] annotation = "os.PathLike" -> IF value.t = "Path" THEN "True" ELSE "False"
      [] annotation = "List[Number]" -> "raise"

(***************************************************************************)
(* The dataclasses.  Of the 58 canopy fields, one of each declared type    *)
(* is kept; the camera fields are all List[Number]; of the LiDAR fields a  *)
(* List[Number] and a Number field are kept.                               *)
(***************************************************************************)
BlockMarker == "_block_new_attributes"

CanopyParameters ==
    <<"leaf_color", "fruit_texture_file", "plant_spacing", "plant_count">>
CameraParameters == <<"image_resolution">>
LiDARParameters == <<"origin", "thetaMin">>

Classes == {"CanopyParameters", "CameraParameters", "LiDARParameters"}

\* the dataclass fields of a class, in declaration order
Fields(cls) ==
    CASE cls = "CanopyParameters" -> CanopyParameters
      [] cls = "CameraParameters" -> CameraParameters
      [] cls = "LiDARParameters" -> LiDARParameters

Range(s) == {s[i] : i \in DOMAIN s}

FieldNames(cls) == Range(Fields(cls))

\* cls.__annotations__
Annotations(cls) ==
    CASE cls = "CanopyParameters" ->
            [leaf_color |-> "str", fruit_texture_file |-> "os.PathLike",
             plant_spacing |-> "Number", plant_count |-> "List[Number]"]
      [] cls = "CameraParameters" -> [image_resolution |-> "List[Number]"]
      [] cls = "LiDARParameters" ->
            [origin |-> "List[Number]", thetaMin |-> "Number"]

\* the names a caller tries to assign on an object of a class: every
\* field of the class, the seal marker, and a name the class does not declare
Keys(cls) == FieldNames(cls) \cup {BlockMarker, "new_field"}

(***************************************************************************)
(* Exceptions                                                              *)
(***************************************************************************)
\* an exception: its type, the fixed text of its message, and what the
\* message names (a key, an expected type, a value and its type, a list of
\* valid names)
Exception(type, msg, key, expected, value, valid) ==
    [type |-> type, msg |-> msg, key |-> key, expected |-> expected,
     value |-> value, actual |-> value.t, valid |-> valid]

Exc(type, msg, key, expected, value) ==
    Exception(type, msg, key, expected, value, <<>>)

NoExc == Exc("none", "", "", "", None)

\* a Parameters object: its class and its instance __dict__
Obj(cls, dict) == [cls |-> cls, dict |-> dict]

EmptyDict == [k \in {} |-> None]

\* hasattr(self, name): the instance __dict__, then the class attributes
\* (the dataclass field defaults)
hasattr(self, name) ==
    name \in DOMAIN self.dict \/ name \in FieldNames(self.cls)

\* object.__setattr__(self, key, value)
object_setattr(self, key, value) ==
    Obj(self.cls, (key :> value) @@ self.dict)

Ret(self, exc) == [self |-> self, exc |-> exc]

\* Parameters.__setattr__ without the block on new attributes
setattr_no_block(self, key, value) ==
    IF key \notin DOMAIN self.dict
    THEN Ret(object_setattr(self, key, value), NoExc)
    ELSE IF key \notin DOMAIN Annotations(self.cls)
    THEN Ret(self, Exc("KeyError", "key", key, "", value))
    ELSE LET annotation == Annotations(self.cls)[key]
             check == isinstance(value, annotation)
         IN  IF check = "raise"
             THEN Ret(self, Exc("TypeError", "Subscripted generics", "", "", None))
             ELSE IF check = "False"
             THEN Ret(self, Exc("TypeError", "Expected a value of type", key, annotation, value))
             ELSE Ret(object_setattr(self, key, value), NoExc)

\* Parameters.__setattr__ that stores the value before it checks its type
setattr_assign_first(self, key, value) ==
    IF key \notin DOMAIN self.dict
    THEN IF ~hasattr(self, BlockMarker)
         THEN Ret(object_setattr(self, key, value), NoExc)
         ELSE Ret(self, Exc("AttributeError", "Cannot assign new attributes", key, self.cls, value))
    ELSE IF key \notin DOMAIN Annotations(self.cls)
    THEN Ret(object_setattr(self, key, value), Exc("KeyError", "key", key, "", value))
    ELSE LET annotation == Annotations(self.cls)[key]
             check == isinstance(value, annotation)
         IN  IF check = "raise"
             THEN Ret(object_setattr(self, key, value),
                      Exc("TypeError", "Subscripted generics", "", "", None))
             ELSE IF check = "False"
             THEN Ret(object_setattr(self, key, value),
                      Exc("TypeError", "Expected a value of type", key, annotation, value))
             ELSE Ret(object_setattr(self, key, value), NoExc)

\* Parameters.__setattr__(self, key, value)
setattr(self, key, value) ==
    IF key \notin DOMAIN self.dict
    THEN IF ~hasattr(self, BlockMarker)
         THEN Ret(object_setattr(self, key, value), NoExc)
         ELSE Ret(self, Exc("AttributeError", "Cannot assign new attributes", key, self.cls, value))
    ELSE IF key \notin DOMAIN Annotations(self.cls)
    THEN \* self.__annotations__[key] of a name that has no annotation
         Ret(self, Exc("KeyError", "key", key, "", value))
    ELSE LET annotation == Annotations(self.cls)[key]
             check == isinstance(value, annotation)
         IN  IF check = "raise"
             THEN Ret(self, Exc("TypeError", "Subscripted generics", "", "", None))
             ELSE IF check = "False"
             THEN Ret(self, Exc("TypeError", "Expected a value of type", key, annotation, value))
             ELSE Ret(object_setattr(self, key, value), NoExc)

\* Parameters.__post_init__ that forgets the marker
post_init_no_seal(self) == self

\* Parameters.__post_init__(self)
post_init(self) == setattr(self, BlockMarker, True).self

\* the dataclass-generated __init__: self.f = kwargs.get(f, None) for every
\* field in declaration order, through __setattr__, then __post_init__
RECURSIVE init_fields(_, _, _)
init_fields(self, fields, kwargs) ==
    IF fields = <<>> THEN self
    ELSE LET f == Head(fields)
             v == IF f \in DOMAIN kwargs THEN kwargs[f] ELSE None
         IN  init_fields(setattr(self, f, v).self, Tail(fields), kwargs)

NewParameters(cls, kwargs) ==
    post_init(init_fields(Obj(cls, EmptyDict), Fields(cls), kwargs))

(***************************************************************************)
(* HeliosOptions                                                           *)
(***************************************************************************)
\* HeliosOptions._default_config: the table load_default_helios_configuration
\* returns.  Lists are objects of the table, named by their id.
default_config ==
    [canopy |->
        [types |-> <<"VSPGrapevine", "Tomato">>,
         parameters |->
            [VSPGrapevine |->
                [leaf_color |-> Val("str", 1), plant_spacing |-> Val("float", 1),
                 plant_count |-> Val("list", 1)],
             Tomato |->
                [fruit_texture_file |-> Val("str", 3),
                 plant_spacing |-> Val("float", 2),
                 plant_count |-> Val("list", 2)]]],
     camera |-> [parameters |-> [image_resolution |-> Val("list", 3)]],
     lidar |-> [parameters |-> [origin |-> Val("list", 4), thetaMin |-> Val("float", 1)]]]

\* the contents of the lists of the table, by list id
default_lists == [id \in 1..4 |-> <<0, 0>>]

\* the canopy arguments a caller passes: the registered types, an
\* unregistered one, and the default None
CanopyArgs == {"VSPGrapevine", "Tomato", "Maize", "None"}

Slots == 1..MaxInst
\* one id more than the stores the HeliosOptions objects hold, for the store
\* that only the caller's variable keeps alive
Ids == 1..(MaxStores + 1)

\* a HeliosOptions whose __init__ has not run
NoOpts ==
    [canopy |-> "", canopy_parameters |-> 0, camera_parameters |-> 0,
     lidar_parameters |-> 0]

Min(S) == CHOOSE x \in S : \A y \in S : x <= y

\* self.<attr> = obj: the new object gets a free id, the object the
\* attribute held before is dropped with its last reference (it stays alive
\* while the caller's variable refers to it)
Bind(h, old, obj) ==
    LET id == Min(Ids \ DOMAIN h)
        h1 == (id :> obj) @@ h
    IN  [heap |-> [k \in DOMAIN h1 \ ({old} \ {held}) |-> h1[k]], id |-> id]

\* the stores built with a camera store that takes its values from the
\* parameters of the canopy type
build_stores_camera_of_canopy(self, h, canopy) ==
    IF canopy \notin DOMAIN default_config.canopy.parameters
    THEN [self |-> [self EXCEPT !.canopy = canopy], heap |-> h,
          exc |-> Exc("KeyError", "key", canopy, "", None)]
    ELSE LET b1 == Bind(h, self.canopy_parameters,
                        NewParameters("CanopyParameters",
                                      default_config.canopy.parameters[canopy]))
             b2 == Bind(b1.heap, self.camera_parameters,
                        NewParameters("CameraParameters",
                                      default_config.canopy.parameters[canopy]))
             b3 == Bind(b2.heap, self.lidar_parameters,
                        NewParameters("LiDARParameters", default_config.lidar.parameters))
         IN  [self |-> [canopy |-> canopy, canopy_parameters |-> b1.id,
                        camera_parameters |-> b2.id, lidar_parameters |-> b3.id],
              heap |-> b3.heap, exc |-> NoExc]

\* lines 176-185 of _initialize_canopy: self._canopy = canopy, then the
\* three stores are built from the default table and bound to self
build_stores(self, h, canopy) ==
    IF canopy \notin DOMAIN default_config.canopy.parameters
    THEN [self |-> [self EXCEPT !.canopy = canopy], heap |-> h,
          exc |-> Exc("KeyError", "key", canopy, "", None)]
    ELSE LET b1 == Bind(h, self.canopy_parameters,
                        NewParameters("CanopyParameters",
                                      default_config.canopy.parameters[canopy]))
             b2 == Bind(b1.heap, self.camera_parameters,
                        NewParameters("CameraParameters", default_config.camera.parameters))
             b3 == Bind(b2.heap, self.lidar_parameters,
                        NewParameters("LiDARParameters", default_config.lidar.parameters))
         IN  [self |-> [canopy |-> canopy, canopy_parameters |-> b1.id,
                        camera_parameters |-> b2.id, lidar_parameters |-> b3.id],
              heap |-> b3.heap, exc |-> NoExc]

InvalidCanopy(canopy) ==
    Exception("ValueError", "Received invalid canopy type", canopy, "", None,
              default_config.canopy.types)

\* HeliosOptions._initialize_canopy that skips the validity check
initialize_canopy_no_check(self, h, canopy) == build_stores(self, h, canopy)

\* HeliosOptions._initialize_canopy that keeps the stores it already has
initialize_canopy_keeps_stores(self, h, canopy) ==
    IF canopy \notin Range(default_config.canopy.types)
    THEN [self |-> self, heap |-> h, exc |-> InvalidCanopy(canopy)]
    ELSE IF self.canopy_parameters # 0
    THEN [self |-> self, heap |-> h, exc |-> NoExc]
    ELSE build_stores(self, h, canopy)

\* HeliosOptions._initialize_canopy(self, canopy)
initialize_canopy(self, h, canopy) ==
    IF canopy \notin Range(default_config.canopy.types)
    THEN [self |-> self, heap |-> h, exc |-> InvalidCanopy(canopy)]
    ELSE build_stores(self, h, canopy)

\* the read-only views HeliosOptions.canopy / .camera / .lidar
Views == {"canopy", "camera", "lidar"}

View(self, view) ==
    CASE view = "canopy" -> self.canopy_parameters
      [] view = "camera" -> self.camera_parameters
      [] view = "lidar" -> self.lidar_parameters

\* the value a store of a class gets for a field from a defaults mapping
DefaultOf(kwargs, f) == IF f \in DOMAIN kwargs THEN kwargs[f] ELSE None

\* the defaults mapping a view of a HeliosOptions of a canopy type is built from
DefaultsFor(canopy, view) ==
    CASE view = "canopy" -> default_config.canopy.parameters[canopy]
      [] view = "camera" -> default_config.camera.parameters
      [] view = "lidar" -> default_config.lidar.parameters

\* every field of every sub-store of self holds the default of the canopy type
AtDefaults(self, h, canopy) ==
    \A view \in Views :
        LET store == h[View(self, view)]
        IN  \A f \in FieldNames(store.cls) :
                f \in DOMAIN store.dict
                    /\ store.dict[f] = DefaultOf(DefaultsFor(canopy, view), f)

\* the stores the HeliosOptions objects hold
Owned(o) == {View(o[i], view) : i \in Slots, view \in Views} \ {0}

\* an operation: its name, the HeliosOptions slot, the id of the store it
\* assigned to, the key (the canopy argument of a construction or a reset),
\* the value, and whether a reset found an edited store
Op(op, i, id, key, value, dirty) ==
    [op |-> op, i |-> i, id |-> id, key |-> key, value |-> value,
     dirty |-> dirty]

(***************************************************************************)
(* The operations on the parameter stores                                  *)
(***************************************************************************)
\* opts[i] = HeliosOptions(canopy)
New(i, canopy) ==
    /\ opts[i] = NoOpts
    /\ Cardinality(Owned(opts)) + 3 <= MaxStores
         \/ canopy \notin Range(default_config.canopy.types)
    /\ LET r == initialize_canopy(NoOpts, heap, canopy)
       IN  /\ opts' = [opts EXCEPT ![i] = IF r.exc = NoExc THEN r.self ELSE NoOpts]
           /\ heap' = r.heap
           /\ raised' = r.exc
           /\ last' = Op("new", i, 0, canopy, None, FALSE)
    /\ UNCHANGED <<mvars, avars, tvars, dvars>>

\* opts[i].<view>.<key> = value
SetField(i, view, key, value) ==
    /\ opts[i] # NoOpts
    /\ key \in Keys(heap[View(opts[i], view)].cls)
    /\ LET id == View(opts[i], view)
           r == setattr(heap[id], key, value)
       IN  /\ heap' = [heap EXCEPT ![id] = r.self]
           /\ raised' = r.exc
           /\ last' = Op("setattr", i, id, key, value, FALSE)
    /\ UNCHANGED <<opts, mvars, avars, tvars, dvars>>

\* opts[i].reset()
Reset(i) ==
    /\ opts[i] # NoOpts
    /\ Cardinality(Owned(opts)) < MaxStores
    /\ LET r == initialize_canopy(opts[i], heap, opts[i].canopy)
       IN  /\ opts' = [opts EXCEPT ![i] = r.self]
           /\ heap' = r.heap
           /\ raised' = r.exc
           /\ last' = Op("reset", i, 0, opts[i].canopy, None,
                         ~AtDefaults(opts[i], heap, opts[i].canopy))
    /\ UNCHANGED <<mvars, avars, tvars, dvars>>

\* ref = opts[i].<view>: the caller's variable refers to the store the view
\* returns; the store it referred to before is dropped with its last reference
Hold(i, view) ==
    /\ opts[i] # NoOpts
    /\ held' = View(opts[i], view)
    /\ heap' = [k \in DOMAIN heap \cap (Owned(opts) \cup {held'}) |-> heap[k]]
    /\ raised' = NoExc
    /\ last' = Op("hold", i, held', view, None, FALSE)
    /\ UNCHANGED <<opts, lists, mvars, tvars, dvars>>

\* ref.<key> = value
SetHeld(key, value) ==
    /\ held # 0
    /\ key \in Keys(heap[held].cls)
    /\ LET r == setattr(heap[held], key, value)
       IN  /\ heap' = [heap EXCEPT ![held] = r.self]
           /\ raised' = r.exc
           /\ last' = Op("setattr", 0, held, key, value, FALSE)
    /\ UNCHANGED <<opts, mvars, avars, tvars, dvars>>

\* opts[i].<view>.<key>[index] = x: the field is read from the store and the
\* list it refers to is changed in place
EditList(i, view, key, index, x) ==
    /\ opts[i] # NoOpts
    /\ LET id == View(opts[i], view)
       IN  /\ key \in FieldNames(heap[id].cls)
           /\ heap[id].dict[key].t = "list"
           /\ index \in DOMAIN lists[heap[id].dict[key].v]
           /\ lists' = [lists EXCEPT ![heap[id].dict[key].v][index] = x]
           /\ last' = Op("setitem", i, id, key, Val("int", x), FALSE)
    /\ raised' = NoExc
    /\ UNCHANGED <<opts, heap, held, mvars, tvars, dvars>>

(***************************************************************************)
(* The dataset metadata registry (agml/data/metadata.py)                   *)
(***************************************************************************)
MaxNameLen == 3   \* characters of a dataset name a caller passes
MaxInfo == 2      \* DatasetMetadata objects alive at once

\* dataset names are strings of these characters
Alphabet == {"a", "b", "-", "_"}

\* the names a caller passes: words joined by a hyphen or an underscore
Names ==
    {name \in UNION {[1..n -> Alphabet] : n \in 1..MaxNameLen} :
        \A k \in DOMAIN name : (name[k] \in {"-", "_"}) = (k % 2 = 0)}

\* name.replace('-', '_')
replace_hyphens(name) ==
    [k \in DOMAIN name |-> IF name[k] = "-" THEN "_" ELSE name[k]]

\* a str and a dict value of a table; a dict keeps its items in insertion order
PyStr(str) == [isdict |-> FALSE, s |-> str, items |-> <<>>]
PyDict(items) == [isdict |-> TRUE, s |-> "", items |-> items]

keys(d) == [k \in DOMAIN d.items |-> d.items[k][1]]
values(d) == [k \in DOMAIN d.items |-> d.items[k][2]]

\* dict[key] of a dict in item form (the last item of a key is its value)
item(d, key) ==
    LET ks == {k \in DOMAIN d.items : d.items[k][1] = key}
    IN  d.items[CHOOSE k \in ks : \A j \in ks : j <= k][2]

\* the numeric strings of the tables and the number float() reads in them
FloatText ==
    [x \in {"0", "1", "1.0", "2", "2.0", "3000"} |->
        CASE x \in {"0"} -> 0
          [] x \in {"1", "1.0"} -> 1
          [] x \in {"2", "2.0"} -> 2
          [] x = "3000" -> 3000]

\* load_public_sources(): dataset name -> attribute table
public_sources ==
    (<<"a", "_", "b">> :>
        [n_images |-> "3000", ml_task |-> "object_detection",
         ag_task |-> "flower_counting",
         location |-> PyDict(<< <<"continent", "North America">>, <<"country", "USA">> >>),
         stats |-> PyDict(<< <<"mean", "0.5">>, <<"std", "0.2">> >>),
         classes |-> PyDict(<< <<"1", PyStr("flower")>>, <<"2.0", PyStr("bud")>> >>)])
    @@ (<<"b">> :>
        [n_images |-> "2.0", ml_task |-> "image_classification",
         ag_task |-> "disease_classification",
         location |-> PyDict(<< <<"continent", "Asia">>, <<"country", "India">> >>),
         stats |-> PyDict(<< <<"std", "0.1">>, <<"mean", "0.4">> >>),
         sensor_modality |-> "rgb",
         classes |-> PyDict(<<
             <<"crop", PyDict(<< <<"0", PyStr("rice")>>, <<"1", PyStr("wheat")>> >>)>>,
             <<"disease", PyDict(<< <<"0", PyStr("rust")>> >>)>> >>)])
    @@ (<<"b", "_", "a">> :>
        [n_images |-> "1", ml_task |-> "semantic_segmentation",
         ag_task |-> "weed_segmentation",
         location |-> PyDict(<< <<"continent", "Europe">>, <<"country", "Denmark">> >>),
         stats |-> PyDict(<< <<"mean", "0.3">>, <<"std", "0.3">> >>),
         sensor_modality |-> "rgb",
         classes |-> PyDict(<< <<"0", PyStr("background")>>, <<"1", PyStr("weed")>> >>)])

\* load_citation_sources(): dataset name -> license and citation
citation_sources ==
    (<<"a", "_", "b">> :> [license |-> "CC BY-SA 4.0", citation |-> ""])
    @@ (<<"b">> :> [license |-> "", citation |-> "@misc{b}"])

\* has_nested_dicts(obj): some value of the mapping is itself a mapping
has_nested_dicts(obj) ==
    \E k \in DOMAIN obj.items : obj.items[k][2].isdict

\* what an operation of the registry returns or raises: an exception has a
\* type, the fixed text of its message, the dataset and the key the message
\* names, and the population its "maybe you meant" suggestion is drawn from
MException(type, msg, dataset, key) ==
    [type |-> type, msg |-> msg, dataset |-> dataset, key |-> key, suggest |-> ""]

\* maybe_you_meant(name, msg, source = ...): the message, with the names of
\* the source that are close to name appended
maybe_you_meant(exc, source) == [exc EXCEPT !.suggest = source]

MNoExc == MException("none", "", <<>>, "")

Ok(value) == [ok |-> TRUE, value |-> value, exc |-> MNoExc]
Raise(exc) == [ok |-> FALSE, value |-> 0, exc |-> exc]

\* a DatasetMetadata whose __init__ has not run
NoInfo == [name |-> <<>>, metadata |-> [k \in {} |-> 0], citation_meta |-> [k \in {} |-> 0]]

\* _MetadataDict.__getitem__(item) of the _MetadataDict of a dataset
getitem(dataset, d, key) ==
    IF key \in DOMAIN d THEN Ok(d[key])
    ELSE Raise(MException("KeyError", "is missing metadata", dataset, key))

\* the ValueError of lines 101-103
InvalidSource(name) ==
    maybe_you_meant(MException("ValueError", "Received invalid public source", name, ""),
                    "public sources")

\* DatasetMetadata._load_source_info without the check of the name: the
\* lookup of the table raises
load_source_info_no_check(name) ==
    LET source_info == public_sources
        name2 == replace_hyphens(name)
        canonical == IF name \in DOMAIN source_info THEN name ELSE name2
    IN  IF canonical \notin DOMAIN source_info \/ canonical \notin DOMAIN citation_sources
        THEN Raise(MException("KeyError", "", canonical, ""))
        ELSE Ok([name |-> canonical, metadata |-> source_info[canonical],
                 citation_meta |-> citation_sources[canonical]])

\* DatasetMetadata._load_source_info that looks the citation up under the
\* name as the caller gave it
load_source_info_citation_by_input(name) ==
    LET source_info == public_sources
        found == name \in DOMAIN source_info
        name2 == replace_hyphens(name)
    IN  IF ~found /\ name2 \notin DOMAIN source_info
        THEN Raise(InvalidSource(name))
        ELSE LET canonical == IF found THEN name ELSE name2
             IN  IF name \notin DOMAIN citation_sources
                 THEN Raise(MException("KeyError", "", name, ""))
                 ELSE Ok([name |-> canonical, metadata |-> source_info[canonical],
                          citation_meta |-> citation_sources[name]])

\* DatasetMetadata._load_source_info(name) for a str name: the object, or
\* the exception that leaves __init__
load_source_info(name) ==
    LET source_info == public_sources
        found == name \in DOMAIN source_info
        name2 == replace_hyphens(name)
    IN  IF ~found /\ name2 \notin DOMAIN source_info
        THEN Raise(InvalidSource(name))
        ELSE LET canonical == IF found THEN name ELSE name2
             IN  IF canonical \notin DOMAIN citation_sources
                 THEN \* load_citation_sources()[name] of a plain dict
                      Raise(MException("KeyError", "", canonical, ""))
                 ELSE Ok([name |-> canonical, metadata |-> source_info[canonical],
                          citation_meta |-> citation_sources[canonical]])

\* _load_source_info that hands the DatasetMetadata itself to the lookup of
\* the source table: a DatasetMetadata defines __eq__ and no __hash__
load_source_info_instance_as_key(other) ==
    Raise(MException("TypeError", "unhashable type", other.name, ""))

\* DatasetMetadata._load_source_info(name) for a DatasetMetadata name:
\* name = name.name, then as for a str
load_source_info_instance(other) == load_source_info(other.name)

\* DatasetMetadata.__eq__ that compares the tables too
eq_compares_tables(self, other) == self = other

\* DatasetMetadata.__eq__(self, other) for a DatasetMetadata other
eq(self, other) == self.name = other.name

\* the other operand of ==: a DatasetMetadata or a str
OtherInfo(obj) == [isinfo |-> TRUE, obj |-> obj, str |-> <<>>]
OtherStr(str) == [isinfo |-> FALSE, obj |-> NoInfo, str |-> str]

\* DatasetMetadata.__eq__(self, other)
eq_value(self, other) ==
    IF other.isinfo THEN eq(self, other.obj) ELSE FALSE

\* [int(float(i)) for i in d.keys()], or the ValueError of float()
nums_of(d) ==
    IF \A k \in DOMAIN d.items : d.items[k][1] \in DOMAIN FloatText
    THEN Ok([k \in DOMAIN d.items |-> FloatText[d.items[k][1]]])
    ELSE Raise(MException("ValueError", "could not convert string to float", <<>>, ""))

\* dict(zip(ks, vs)): a later pair of a key replaces an earlier one
RECURSIVE dict_zip(_, _)
dict_zip(ks, vs) ==
    IF ks = <<>> \/ vs = <<>> THEN [k \in {} |-> 0]
    ELSE LET n == IF Len(ks) < Len(vs) THEN Len(ks) ELSE Len(vs)
         IN  (ks[n] :> vs[n]) @@ dict_zip(SubSeq(ks, 1, n - 1), SubSeq(vs, 1, n - 1))

labels(d) == [k \in DOMAIN d.items |-> d.items[k][2].s]

StrHasNoKeys == MException("AttributeError", "'str' object has no attribute 'keys'", <<>>, "keys")

\* the body of the num_to_class property
num_to_class(self) ==
    LET m == getitem(self.name, self.metadata, "classes")
    IN  IF ~m.ok THEN m
        ELSE LET mapping == m.value
             IN  IF has_nested_dicts(mapping)
                 THEN \* the loop reaches a class_type whose value is a dict
                      \* and evaluates class_type.keys() on the str
                      Raise(StrHasNoKeys)
                 ELSE LET nums == nums_of(mapping)
                      IN  IF ~nums.ok THEN nums
                          ELSE Ok(dict_zip(nums.value, labels(mapping)))

\* the body of the class_to_num property
class_to_num(self) ==
    LET m == getitem(self.name, self.metadata, "classes")
    IN  IF ~m.ok THEN m
        ELSE LET mapping == m.value
             IN  IF has_nested_dicts(mapping)
                 THEN IF \E k \in DOMAIN mapping.items :
                             mapping.items[k][2].isdict /\ ~nums_of(mapping.items[k][2]).ok
                      THEN Raise(MException("ValueError", "could not convert string to float", <<>>, ""))
                      ELSE Ok([class_type \in Range(keys(mapping)) |->
                                 LET g == item(mapping, class_type)
                                 IN  IF g.isdict
                                     THEN dict_zip(labels(g), nums_of(g).value)
                                     ELSE g])
                 ELSE LET nums == nums_of(mapping)
                      IN  IF ~nums.ok THEN nums
                          ELSE Ok(dict_zip(labels(mapping), nums.value))

\* a list or a dict a property returns
PyValue(type, v) == [type |-> type, v |-> v]

\* the body of the classes property
classes(self) ==
    LET m == getitem(self.name, self.metadata, "classes")
    IN  IF ~m.ok THEN m
        ELSE IF has_nested_dicts(m.value)
        THEN IF \E k \in DOMAIN m.value.items : ~m.value.items[k][2].isdict
             THEN Raise(MException("AttributeError", "'str' object has no attribute 'values'", <<>>, "values"))
             ELSE Ok(PyValue("dict", [k \in Range(keys(m.value)) |-> labels(item(m.value, k))]))
        ELSE Ok(PyValue("list", labels(m.value)))

\* len() of a list or a dict
len(c) == IF c.type = "list" THEN Len(c.v) ELSE Cardinality(DOMAIN c.v)

\* the body of the num_images property
num_images(self) ==
    LET m == getitem(self.name, self.metadata, "n_images")
    IN  IF ~m.ok THEN m
        ELSE IF m.value \in DOMAIN FloatText THEN Ok(FloatText[m.value])
        ELSE Raise(MException("ValueError", "could not convert string to float", <<>>, ""))

\* the body of the tasks property
tasks(self) ==
    LET ml_task == getitem(self.name, self.metadata, "ml_task")
        ag_task == getitem(self.name, self.metadata, "ag_task")
    IN  IF ~ml_task.ok THEN ml_task
        ELSE IF ~ag_task.ok THEN ag_task
        ELSE Ok([ml |-> ml_task.value, ag |-> ag_task.value])

\* first, second = d.values()
unpack2(d) ==
    IF Len(d.items) = 2 THEN Ok(values(d))
    ELSE Raise(MException("ValueError", "values to unpack", <<>>, ""))

\* the body of the location property
location(self) ==
    LET m == getitem(self.name, self.metadata, "location")
    IN  IF ~m.ok THEN m
        ELSE LET u == unpack2(m.value)
             IN  IF ~u.ok THEN u
                 ELSE Ok([continent |-> u.value[1], country |-> u.value[2]])

\* the body of the image_stats property
image_stats(self) ==
    LET m == getitem(self.name, self.metadata, "stats")
    IN  IF ~m.ok THEN m
        ELSE LET u == unpack2(m.value)
             IN  IF ~u.ok THEN u
                 ELSE Ok([mean |-> u.value[1], std |-> u.value[2]])

\* a str result that may be None
Absent == [none |-> TRUE, s |-> ""]
Present(str) == [none |-> FALSE, s |-> str]

\* the license and citation properties without the test of the empty string
citation_field_raw(self, field) ==
    LET m == getitem(self.name, self.citation_meta, field)
    IN  IF ~m.ok THEN m ELSE Ok(Present(m.value))

\* the body of the license and citation properties
citation_field(self, field) ==
    LET m == getitem(self.name, self.citation_meta, field)
    IN  IF ~m.ok THEN m
        ELSE IF m.value = "" THEN Ok(Absent)
        ELSE Ok(Present(m.value))

\* the properties of the class
Properties ==
    {"name", "num_images", "tasks", "location", "image_stats",
     "sensor_modality", "num_to_class", "class_to_num", "classes",
     "num_classes", "license", "citation"}

\* DatasetMetadata.__getattr__ that does not look the key up in the table
getattr_fallback_no_table(self, key) ==
    Raise(maybe_you_meant(
        MException("AttributeError", "Received invalid info parameter", self.name, key),
        "metadata keys"))

\* DatasetMetadata.__getattr__(self, key), entered when the normal lookup
\* raised AttributeError: the retry of the lookup raises again, and the key
\* is looked up in the attribute table
getattr_fallback(self, key) ==
    IF key \in DOMAIN self.metadata
    THEN getitem(self.name, self.metadata, key)
    ELSE Raise(maybe_you_meant(
                 MException("AttributeError", "Received invalid info parameter", self.name, key),
                 "metadata keys"))

\* the body of a property
RECURSIVE property(_, _)

\* self.<key>: the property (or the AttributeError of a name the class does
\* not have), then __getattr__ on AttributeError
getattr(self, key) ==
    LET r == IF key \in Properties THEN property(self, key)
             ELSE Raise(MException("AttributeError", "object has no attribute", self.name, key))
    IN  IF ~r.ok /\ r.exc.type = "AttributeError"
        THEN getattr_fallback(self, key)
        ELSE r

property(self, key) ==
    CASE key = "name" -> Ok(self.name)
      [] key = "num_images" -> num_images(self)
      [] key = "tasks" -> tasks(self)
      [] key = "location" -> location(self)
      [] key = "image_stats" -> image_stats(self)
      [] key = "sensor_modality" -> getitem(self.name, self.metadata, "sensor_modality")
      [] key = "num_to_class" -> num_to_class(self)
      [] key = "class_to_num" -> class_to_num(self)
      [] key = "classes" -> classes(self)
      [] key = "num_classes" ->
            LET c == getattr(self, "classes")
            IN  IF c.ok THEN Ok(len(c.value)) ELSE c
      [] key = "license" -> citation_field(self, "license")
      [] key = "citation" -> citation_field(self, "citation")

(***************************************************************************)
(* train_classification (agml/models/training/basic_trainers.py) and       *)
(* ClassificationModel._prepare_for_training (agml/models/classification.py) *)
(***************************************************************************)
\* the dataset argument: None, or a loader with its task, whether its data
\* is split, and its name
Dataset(given, ml, is_split) == [given |-> given, ml |-> ml, is_split |-> is_split]
NoDataset == Dataset(FALSE, "", FALSE)

DatasetArgs ==
    {NoDataset,
     Dataset(TRUE, "image_classification", TRUE),
     Dataset(TRUE, "image_classification", FALSE),
     Dataset(TRUE, "object_detection", TRUE)}

\* the model argument, by its class
ModelArgs == {"ClassificationModel", "DetectionModel"}

\* the optimizer argument: None, a name, a torch.optim.Optimizer, a number
PyNone == [t |-> "NoneType", s |-> ""]
OptimizerArgs ==
    {PyNone, [t |-> "str", s |-> "sgd"], [t |-> "str", s |-> "bogus"],
     [t |-> "Optimizer", s |-> ""], [t |-> "int", s |-> ""]}

\* the lr argument and the learning_rate keyword
RateArgs == {"None", "0.01"}

TExc(type, msg) == [type |-> type, msg |-> msg]
TNoExc == TExc("none", "")

\* the arguments _prepare_for_training was called with
Prepare(called, loss, metrics, optimizer, lr) ==
    [called |-> called, loss |-> loss, metrics |-> metrics,
     optimizer |-> optimizer, lr |-> lr]
NoPrepare == Prepare(FALSE, "", <<>>, PyNone, "None")

\* how a call ended: the step it reached, the exception it raised, the call
\* of _prepare_for_training it made, and the loaders it handed to the trainer
Outcome(stage, exc, prepare, loaders) ==
    [stage |-> stage, exc |-> exc, prepare |-> prepare, loaders |-> loaders]
NoLoaders == <<FALSE, FALSE, FALSE>>

\* any([train_dataloader, val_dataloader, test_dataloader])
any(loaders) == \E k \in DOMAIN loaders : loaders[k]

\* ClassificationModel._prepare_for_training(self, loss, metrics, optimizer,
\* lr_scheduler = None, lr): the loss and the metrics of the defaults are
\* accepted; a named optimizer is looked up through self.optimizer_class,
\* an attribute the model does not have
prepare_for_training(loss, metrics, optimizer, lr) ==
    IF optimizer.t = "str"
    THEN TExc("AttributeError", "object has no attribute 'optimizer_class'")
    ELSE IF optimizer.t = "Optimizer"
    THEN TNoExc
    ELSE TExc("TypeError", "Expected an optimizer name or a torch optimizer")

\* train_classification(model, dataset = dataset, optimizer = optimizer,
\* lr = lr, train_dataloader = .., val_dataloader = .., test_dataloader = ..,
\* learning_rate = learning_rate), the other arguments at their defaults
train_classification(model, dataset, loaders, optimizer, lr, learning_rate) ==
    IF ~dataset.given
    THEN \* dataset.info of None
         Outcome("data_checks", TExc("AttributeError", "'NoneType' object has no attribute 'info'"),
                 NoPrepare, NoLoaders)
    ELSE IF dataset.ml # "image_classification"
    THEN Outcome("data_checks", TExc("ValueError", "must be an image classification dataset"),
                 NoPrepare, NoLoaders)
    ELSE IF dataset.given # any(loaders)
    THEN Outcome("data_checks", TExc("ValueError", "only pass one of the dataset/dataloader arguments"),
                 NoPrepare, NoLoaders)
    ELSE IF dataset.given /\ ~dataset.is_split
    THEN Outcome("data_checks", TExc("ValueError", "must have split data"),
                 NoPrepare, NoLoaders)
    ELSE LET \* the loaders are replaced by the data of a split dataset
             used == IF dataset.given THEN <<TRUE, TRUE, TRUE>> ELSE loaders
         IN  IF model # "ClassificationModel"
             THEN Outcome("model_check", TExc("ValueError", "Expected an agml.models.ClassificationModel"),
                          NoPrepare, NoLoaders)
             ELSE IF lr # "None" /\ learning_rate # "None"
             THEN Outcome("defaults", TExc("ValueError", "cannot pass both lr and learning_rate"),
                          NoPrepare, NoLoaders)
             ELSE LET opt == IF optimizer = PyNone THEN [t |-> "str", s |-> "adam"] ELSE optimizer
                      rate == IF lr # "None" THEN lr
                              ELSE IF learning_rate # "None" THEN learning_rate
                              ELSE "1e-3"
                      p == Prepare(TRUE, "ce", <<"accuracy">>, opt, rate)
                      e == prepare_for_training("ce", <<"accuracy">>, opt, rate)
                  IN  IF e # TNoExc
                      THEN Outcome("prepare", e, p, NoLoaders)
                      ELSE Outcome("fit", TNoExc, p, used)

Call(made, model, dataset, loaders, optimizer, lr, learning_rate, out) ==
    [made |-> made, model |-> model, dataset |-> dataset, loaders |-> loaders,
     optimizer |-> optimizer, lr |-> lr, learning_rate |-> learning_rate,
     out |-> out]

NoCall ==
    Call(FALSE, "", NoDataset, NoLoaders, PyNone, "None", "None",
         Outcome("none", TNoExc, NoPrepare, NoLoaders))

(***************************************************************************)
(* PublicDataAPI.download_dataset (agml/data/publicdata.py)                *)
(***************************************************************************)
MaxChunks == 2    \* chunks of an archive in the bucket
MaxMembers == 2   \* files in an archive

\* the datasets a caller asks for
DatasetNames == {"a_b", "b"}

\* a file that does not exist
NoFile == 0 - 1

\* os.remove(path) that leaves the file
os_remove_keeps_file(archive, path) == archive

\* os.remove(path): the files of the destination directory without path
os_remove(archive, path) == [archive EXCEPT ![path] = NoFile]

\* open(path, 'wb'): the file exists and is empty
open_wb(archive, path) == [archive EXCEPT ![path] = 0]

\* a PublicDataAPI and the destination directory before any download: pc
\* is the step download_dataset is at, name/size/members the archive of the
\* bucket it was asked for, pg the progress bar, extracted the files
\* extractall has written in this call, archive the chunks of each zip in
\* the destination directory, dest the files extracted there
NoDownload ==
    [pc |-> "idle", name |-> "", size |-> 0, members |-> 0, pg |-> 0,
     extracted |-> 0, exc |-> "",
     archive |-> [n \in DatasetNames |-> NoFile],
     dest |-> [n \in DatasetNames |-> 0]]

Init ==
    /\ dl = NoDownload
    /\ held = 0
    /\ lists = default_lists
    /\ call = NoCall
    /\ opts = [i \in Slots |-> NoOpts]
    /\ heap = [k \in {} |-> Obj("", EmptyDict)]
    /\ raised = NoExc
    /\ last = Op("none", 0, 0, "", None, FALSE)
    /\ info = [i \in 1..MaxInfo |-> NoInfo]
    /\ result = Ok(0)
    /\ mlast = [op |-> "none", i |-> 0, arg |-> <<>>, other |-> 0]

Next ==
    \/ \E i \in Slots, canopy \in CanopyArgs : New(i, canopy)
    \/ \E i \in Slots, view \in Views, value \in AssignValues :
          \E key \in UNION {Keys(cls) : cls \in Classes} :
             SetField(i, view, key, value)
    \/ \E i \in Slots : Reset(i)

Spec == Init /\ [][Next]_vars

\* the parameter stores with a caller that keeps a reference to a store and
\* edits list values in place; the caller assigns a number to the Number
\* fields and changes the first element of plant_count
AliasValues == {Val("float", 2)}
AliasKeys == {"plant_spacing", "thetaMin"}

NextAlias ==
    \/ \E i \in Slots, canopy \in Range(default_config.canopy.types) : New(i, canopy)
    \/ \E i \in Slots, view \in Views, value \in AliasValues, key \in AliasKeys :
          SetField(i, view, key, value)
    \/ \E i \in Slots : Reset(i)
    \/ \E i \in Slots, view \in Views : Hold(i, view)
    \/ \E value \in AliasValues, key \in AliasKeys : SetHeld(key, value)
    \/ \E i \in Slots : EditList(i, "canopy", "plant_count", 1, 7)

SpecAlias == Init /\ [][NextAlias]_vars

\* train_classification(model, dataset = .., ...)
TrainClassification(model, dataset, loaders, optimizer, lr, learning_rate) ==
    /\ call' = Call(TRUE, model, dataset, loaders, optimizer, lr, learning_rate,
                    train_classification(model, dataset, loaders, optimizer,
                                         lr, learning_rate))
    /\ UNCHANGED <<ovars, mvars, avars, dvars>>

NextTrain ==
    \E model \in ModelArgs, dataset \in DatasetArgs,
       loaders \in [1..3 -> BOOLEAN], optimizer \in OptimizerArgs,
       lr \in RateArgs, learning_rate \in RateArgs :
          TrainClassification(model, dataset, loaders, optimizer, lr, learning_rate)

SpecTrain == Init /\ [][NextTrain]_vars

\* api.download_dataset(name, dest_dir) up to the path of the zip (lines
\* 78-89): the size of the object is asked of the bucket, which raises
\* when the bucket has no such object
Begin(name, present, size, members) ==
    /\ dl.pc \in {"idle", "returned", "raised"}
    /\ dl' = IF present
             THEN [dl EXCEPT !.pc = "open", !.name = name, !.size = size,
                             !.members = members, !.pg = 0, !.extracted = 0,
                             !.exc = ""]
             ELSE [dl EXCEPT !.pc = "raised", !.name = name, !.size = 0,
                             !.members = 0, !.pg = 0, !.extracted = 0,
                             !.exc = "ClientError"]
    /\ UNCHANGED <<ovars, mvars, avars, tvars>>

\* with open(self.dataset_download_path, 'wb') as data
OpenArchive ==
    /\ dl.pc = "open"
    /\ dl' = [dl EXCEPT !.pc = "transfer", !.archive = open_wb(@, dl.name)]
    /\ UNCHANGED <<ovars, mvars, avars, tvars>>

\* download_fileobj writes a chunk and calls the progress callback
TransferChunk ==
    /\ dl.pc = "transfer"
    /\ dl.archive[dl.name] < dl.size
    /\ dl' = [dl EXCEPT !.archive[dl.name] = @ + 1, !.pg = @ + 1]
    /\ UNCHANGED <<ovars, mvars, avars, tvars>>

\* download_fileobj raises: the with statement closes the file and the
\* exception leaves download_dataset
TransferFails ==
    /\ dl.pc = "transfer"
    /\ dl.archive[dl.name] < dl.size
    /\ dl' = [dl EXCEPT !.pc = "raised", !.exc = "ClientError"]
    /\ UNCHANGED <<ovars, mvars, avars, tvars>>

\* download_fileobj returns and the with statement closes the file
TransferDone ==
    /\ dl.pc = "transfer"
    /\ dl.archive[dl.name] = dl.size
    /\ dl' = [dl EXCEPT !.pc = "extract"]
    /\ UNCHANGED <<ovars, mvars, avars, tvars>>

\* z.extractall(path = dest_dir) writes one file of the archive
ExtractMember ==
    /\ dl.pc = "extract"
    /\ dl.extracted < dl.members
    /\ dl' = [dl EXCEPT !.extracted = @ + 1,
                        !.dest[dl.name] = IF @ > dl.extracted THEN @ ELSE dl.extracted + 1]
    /\ UNCHANGED <<ovars, mvars, avars, tvars>>

\* zipfile raises (a bad archive, a full disk)
ExtractFails ==
    /\ dl.pc = "extract"
    /\ dl.extracted < dl.members
    /\ dl' = [dl EXCEPT !.pc = "raised", !.exc = "BadZipFile"]
    /\ UNCHANGED <<ovars, mvars, avars, tvars>>

\* extractall returns and the with statement closes the archive
ExtractDone ==
    /\ dl.pc = "extract"
    /\ dl.extracted = dl.members
    /\ dl' = [dl EXCEPT !.pc = "remove"]
    /\ UNCHANGED <<ovars, mvars, avars, tvars>>

\* os.remove(self.dataset_download_path), and download_dataset returns
Remove ==
    /\ dl.pc = "remove"
    /\ dl' = [dl EXCEPT !.pc = "returned", !.archive = os_remove(@, dl.name)]
    /\ UNCHANGED <<ovars, mvars, avars, tvars>>

NextDownload ==
    \/ \E name \in DatasetNames, present \in BOOLEAN,
          size \in 1..MaxChunks, members \in 1..MaxMembers :
             Begin(name, present, size, members)
    \/ OpenArchive
    \/ TransferChunk
    \/ TransferFails
    \/ TransferDone
    \/ ExtractMember
    \/ ExtractFails
    \/ ExtractDone
    \/ Remove

SpecDownload == Init /\ [][NextDownload]_vars

(***************************************************************************)
(* The operations on the metadata registry                                 *)
(***************************************************************************)
MetaSlots == 1..MaxInfo

MOp(op, i, arg, other) == [op |-> op, i |-> i, arg |-> arg, other |-> other]

\* info[i] = DatasetMetadata(name)
Construct(i, name) ==
    /\ LET r == load_source_info(name)
       IN  /\ info' = [info EXCEPT ![i] = IF r.ok THEN r.value ELSE @]
           /\ result' = IF r.ok THEN Ok(0) ELSE r
    /\ mlast' = MOp("new", i, name, 0)
    /\ UNCHANGED <<ovars, avars, tvars, dvars>>

\* info[i] = DatasetMetadata(info[j])
ConstructFrom(i, j) ==
    /\ info[j] # NoInfo
    /\ LET r == load_source_info_instance(info[j])
       IN  /\ info' = [info EXCEPT ![i] = IF r.ok THEN r.value ELSE @]
           /\ result' = IF r.ok THEN Ok(0) ELSE r
    /\ mlast' = MOp("new_from", i, <<>>, j)
    /\ UNCHANGED <<ovars, avars, tvars, dvars>>

\* info[i].<key>
Get(i, key) ==
    /\ info[i] # NoInfo
    /\ result' = getattr(info[i], key)
    /\ mlast' = MOp("get", i, <<key>>, 0)
    /\ UNCHANGED <<info, ovars, avars, tvars, dvars>>

\* DatasetMetadata.__getitem__(self, key)
getitem_info(self, key) == getattr(self, key)

\* info[i][key]
GetItem(i, key) ==
    /\ info[i] # NoInfo
    /\ result' = getitem_info(info[i], key)
    /\ mlast' = MOp("getitem", i, <<key>>, 0)
    /\ UNCHANGED <<info, ovars, avars, tvars, dvars>>

\* info[i] == info[j]
Equals(i, j) ==
    /\ info[i] # NoInfo
    /\ info[j] # NoInfo
    /\ result' = Ok(eq_value(info[i], OtherInfo(info[j])))
    /\ mlast' = MOp("eq", i, <<>>, j)
    /\ UNCHANGED <<info, ovars, avars, tvars, dvars>>

\* info[i] == name, a str
EqualsStr(i, name) ==
    /\ info[i] # NoInfo
    /\ result' = Ok(eq_value(info[i], OtherStr(name)))
    /\ mlast' = MOp("eq_str", i, name, 0)
    /\ UNCHANGED <<info, ovars, avars, tvars, dvars>>

\* info[i].data[key] = value: the data property hands out the
\* _MetadataDict of the object itself
SetData(i, key, value) ==
    /\ info[i] # NoInfo
    /\ info' = [info EXCEPT ![i].metadata = (key :> value) @@ @]
    /\ result' = Ok(0)
    /\ mlast' = MOp("setdata", i, <<key>>, 0)
    /\ UNCHANGED <<ovars, avars, tvars, dvars>>

\* the names a caller reads: the properties of the class, keys of the
\* attribute table that are no property, and a name that is neither
GetKeys == Properties \cup {"ml_task", "stats", "n_imagez"}

NextMeta ==
    \/ \E i \in MetaSlots, name \in Names : Construct(i, name)
    \/ \E i, j \in MetaSlots : ConstructFrom(i, j)
    \/ \E i \in MetaSlots, key \in GetKeys : Get(i, key)
    \/ \E i \in MetaSlots, key \in GetKeys : GetItem(i, key)
    \/ \E i, j \in MetaSlots : Equals(i, j)
    \/ \E i \in MetaSlots : EqualsStr(i, info[i].name)
    \/ \E i \in MetaSlots : SetData(i, "ml_task", "edited")

SpecMeta == Init /\ [][NextMeta]_vars

(***************************************************************************)
(* Properties of the parameter stores                                      *)
(***************************************************************************)
\* the runtime type of a value of a declared type
ValueIsOf(value, annotation) ==
    CASE annotation = "Number" -> value.t \in {"float", "int"}
      [] annotation = "str" -> value.t = "str"
      [] annotation = "List[Number]" -> value.t = "list"
      [] annotation = "os.PathLike" -> value.t = "Path"

\* the last operation assigned to a declared field of the store's class
AssignedField ==
    /\ last.op = "setattr"
    /\ last.key \in FieldNames(heap[last.id].cls)

LastAnnotation == Annotations(heap[last.id].cls)[last.key]

\* C1: on a sealed store, assigning to a declared field a value of the
\* field's declared type (number, string, list of numbers, path) succeeds,
\* and the field then reads as exactly that value.
C1_AssignDeclaredTypeSucceeds ==
    (AssignedField /\ ValueIsOf(last.value, LastAnnotation))
        => /\ raised = NoExc
           /\ heap[last.id].dict[last.key] = last.value

\* C2: on a sealed store, assigning to a declared field a value whose
\* runtime type is not the field's declared type raises the TypeError whose
\* message names the field, the expected type, the value and its type.
C2_MismatchRaisesNamedTypeError ==
    (AssignedField /\ ~ValueIsOf(last.value, LastAnnotation))
        => /\ raised.type = "TypeError"
           /\ raised.msg = "Expected a value of type"
           /\ raised.key = last.key
           /\ raised.expected = LastAnnotation
           /\ raised.value = last.value
           /\ raised.actual = last.value.t

\* C3: from the first assignment after construction on, assigning to a
\* name that is not a declared field of the store raises the AttributeError
\* of the unknown-field check, whatever the value.
C3_UnknownFieldRaisesAttributeError ==
    (last.op = "setattr" /\ last.key \notin FieldNames(heap[last.id].cls))
        => /\ raised.type = "AttributeError"
           /\ raised.key = last.key

\* C4: a reset leaves the canopy type of a HeliosOptions as it was and
\* leaves every field of its three sub-stores at the default of that canopy
\* type, whatever assignments and resets came before; no operation changes
\* the canopy type of a constructed HeliosOptions.
C4_ResetRestoresDefaults ==
    [][\A i \in Slots :
          opts[i] # NoOpts
              => /\ opts'[i].canopy = opts[i].canopy
                 /\ (last'.op = "reset" /\ last'.i = i)
                        => AtDefaults(opts'[i], heap', opts[i].canopy)]_vars

\* a reset has run on a HeliosOptions that held an edited field, and the
\* field is back at its default
C4_Witness ==
    /\ last.op = "reset"
    /\ last.dirty
    /\ AtDefaults(opts[last.i], heap, last.key)

\* C5: in every reachable state the names a store holds are the names it
\* got at construction (the declared fields and the seal marker): no
\* assignment and no reset adds a name.
C5_FieldSetFixed ==
    \A id \in DOMAIN heap :
        DOMAIN heap[id].dict = FieldNames(heap[id].cls) \cup {BlockMarker}

\* an assignment of an undeclared name was attempted on a store
C5_Witness ==
    /\ last.op = "setattr"
    /\ last.key = "new_field"
    /\ "new_field" \notin DOMAIN heap[last.id].dict

\* a store is Sealed when the check of __setattr__ finds the marker
Sealed(store) == hasattr(store, BlockMarker)

\* C6: every store is Sealed from the end of its construction on: no
\* assignment (the one that targets the marker included) and no reset
\* leaves a store in which new names can be added.
C6_SealedForever ==
    \A id \in DOMAIN heap : Sealed(heap[id])

\* the marker itself was the target of an assignment, and the store is
\* still Sealed
C6_Witness ==
    /\ last.op = "setattr"
    /\ last.key = BlockMarker
    /\ Sealed(heap[last.id])

\* C7: constructing a HeliosOptions with a canopy type that is not
\* registered (None included) raises the ValueError that lists the valid
\* canopy types, and no sub-store exists for it.
C7_InvalidCanopyRejected ==
    (last.op = "new" /\ last.key \notin Range(default_config.canopy.types))
        => /\ raised.type = "ValueError"
           /\ raised.key = last.key
           /\ raised.valid = default_config.canopy.types
           /\ opts[last.i] = NoOpts
           /\ DOMAIN heap = {View(opts[i], v) : i \in {j \in Slots : opts[j] # NoOpts}, v \in Views}

\* a construction with the default canopy None was rejected
C7_Witness ==
    /\ last.op = "new"
    /\ last.key = "None"
    /\ raised.type = "ValueError"

\* C26: an assignment on a store that raises, with the unknown-field
\* AttributeError, the type-mismatch TypeError or any other exception,
\* leaves every store as it was: the same names, the same values, the seal
\* marker in place.
C26_FailedAssignmentChangesNothing ==
    [][(last'.op = "setattr" /\ raised' # NoExc)
          => /\ heap' = heap
             /\ opts' = opts
             /\ Sealed(heap'[last'.id])]_vars

\* a string was refused for a Number field that had been set to another
\* number before, and the field still reads that number
C26_Witness ==
    /\ last.op = "setattr"
    /\ raised.type = "TypeError"
    /\ raised.msg = "Expected a value of type"
    /\ last.key = "plant_spacing"
    /\ last.value.t = "str"
    /\ heap[last.id].dict["plant_spacing"] = Val("float", 2)
    /\ default_config.canopy.parameters[opts[last.i].canopy].plant_spacing # Val("float", 2)

\* C17: a reset rewrites the values inside the stores a HeliosOptions
\* already has: a reference to a sub-store taken before the reset is still
\* the sub-store of the aggregate after it, and reads the defaults of the
\* canopy type.
C17_ResetRewritesInPlace ==
    [][\A view \in Views :
          (last'.op = "reset" /\ held # 0 /\ held = View(opts[last'.i], view))
              => /\ held' = View(opts'[last'.i], view)
                 /\ \A f \in FieldNames(heap'[held'].cls) :
                       heap'[held'].dict[f]
                           = DefaultOf(DefaultsFor(opts[last'.i].canopy, view), f)]_vars

\* C18: the default table is the same in every reachable state: no
\* construction, assignment, in-place edit of a list read from a store, or
\* reset changes the contents of a list of the table.
C18_DefaultTableUnchanged ==
    \A id \in DOMAIN default_lists : lists[id] = default_lists[id]

\* the defaults the camera and the LiDAR store share
SharedDefaults(view) ==
    CASE view = "camera" -> default_config.camera.parameters
      [] view = "lidar" -> default_config.lidar.parameters

\* C19: after a construction and after a reset, the camera and the LiDAR
\* store of a HeliosOptions hold the one shared set of defaults, whatever
\* its canopy type: two HeliosOptions of different canopy types agree on them.
C19_CameraLidarShared ==
    (last.op \in {"new", "reset"} /\ raised = NoExc)
        => \A view \in {"camera", "lidar"} :
              LET store == heap[View(opts[last.i], view)]
              IN  \A f \in FieldNames(store.cls) :
                     /\ store.dict[f] = DefaultOf(SharedDefaults(view), f)
                     /\ \A canopy \in Range(default_config.canopy.types) :
                           store.dict[f] = DefaultOf(DefaultsFor(canopy, view), f)

\* a HeliosOptions of the second canopy type was reset after an edit, and
\* its LiDAR store reads the shared default again
C19_Witness ==
    /\ last.op = "reset"
    /\ last.key = "Tomato"
    /\ last.dirty
    /\ heap[View(opts[last.i], "lidar")].dict["thetaMin"]
           = default_config.lidar.parameters.thetaMin

(***************************************************************************)
(* Properties of train_classification                                      *)
(***************************************************************************)
\* only a split image-classification dataset was passed
DatasetOnly ==
    /\ call.dataset = Dataset(TRUE, "image_classification", TRUE)
    /\ ~any(call.loaders)

\* only dataloaders were passed
LoadersOnly == ~call.dataset.given /\ any(call.loaders)

\* C16: a call with only a split image-classification dataset, or with
\* only dataloaders, passes the data checks and, for a classification model
\* and one learning rate, reaches _prepare_for_training; the 'only one of
\* the dataset/dataloader arguments' error is raised only when a dataset
\* and at least one dataloader are both given.
C16_ExactlyOneDataArgument ==
    call.made
        => /\ (DatasetOnly \/ LoadersOnly)
                 => /\ call.out.stage # "data_checks"
                    /\ (/\ call.model = "ClassificationModel"
                        /\ (call.lr = "None" \/ call.learning_rate = "None"))
                          => call.out.prepare.called
           /\ call.out.exc.msg = "only pass one of the dataset/dataloader arguments"
                 => (call.dataset.given /\ any(call.loaders))

\* the optimizer names that name a class of torch.optim
ValidOptimizerNames == {"adam", "sgd"}

\* C24: when _prepare_for_training is reached with an optimizer name (the
\* default 'adam' when the caller passed none), a valid name is accepted,
\* with the learning rate the caller chose or the default, and an invalid
\* name raises the 'Expected a valid optimizer name' ValueError.
C24_OptimizerNameResolved ==
    (call.made /\ call.out.prepare.called /\ call.out.prepare.optimizer.t = "str")
        => /\ call.optimizer = PyNone => call.out.prepare.optimizer.s = "adam"
           /\ call.out.prepare.optimizer.s \in ValidOptimizerNames
                 => /\ call.out.exc = TNoExc
                    /\ call.out.prepare.lr
                          = (IF call.lr # "None" THEN call.lr
                             ELSE IF call.learning_rate # "None" THEN call.learning_rate
                             ELSE "1e-3")
           /\ call.out.prepare.optimizer.s \notin ValidOptimizerNames
                 => /\ call.out.exc.type = "ValueError"
                    /\ call.out.exc.msg = "Expected a valid optimizer name"

(***************************************************************************)
(* Properties of download_dataset                                          *)
(***************************************************************************)
\* C25: download_dataset extracts only from an archive whose transfer has
\* finished, deletes the archive only after every file of it has been
\* extracted, and has deleted it when it returns.
C25_TransferExtractDelete ==
    [][/\ dl'.extracted > dl.extracted
             => dl.pc = "extract" /\ dl.archive[dl.name] = dl.size
       /\ \A n \in DatasetNames :
             (dl.archive[n] # NoFile /\ dl'.archive[n] = NoFile)
                 => /\ n = dl.name
                    /\ dl.archive[n] = dl.size
                    /\ dl.extracted = dl.members
       /\ dl'.pc = "returned" => dl'.archive[dl'.name] = NoFile]_vars

\* a download of a whole archive has returned: its files are in the
\* destination directory and the zip is gone
C25_Witness ==
    /\ dl.pc = "returned"
    /\ dl.size = MaxChunks
    /\ dl.members = MaxMembers
    /\ dl.extracted = dl.members
    /\ dl.dest[dl.name] = dl.members
    /\ dl.archive[dl.name] = NoFile

(***************************************************************************)
(* Properties of the metadata registry                                     *)
(***************************************************************************)
\* the derived properties a dataset record must resolve
DerivedProperties ==
    {"num_images", "tasks", "location", "image_stats", "num_to_class",
     "class_to_num", "classes", "num_classes", "license", "citation"}

\* C8: a DatasetMetadata constructed from a name d of the source table has
\* name d, and every derived property of it resolves without error, for a
\* record with flat classes and for a record with classes nested by grouping.
C8_DerivedPropertiesResolve ==
    /\ (mlast.op = "new" /\ mlast.arg \in DOMAIN public_sources /\ result.ok)
          => info[mlast.i].name = mlast.arg
    /\ (mlast.op = "get" /\ mlast.arg[1] \in DerivedProperties)
          => result.ok

\* class_to_num[num_to_class[i]] = i for every i of one flat mapping
Inverse(n2c, c2n) ==
    \A n \in DOMAIN n2c : n2c[n] \in DOMAIN c2n /\ c2n[n2c[n]] = n

\* C9: for every dataset record num_to_class and class_to_num are both
\* mappings and class_to_num[num_to_class[i]] = i for every i of
\* num_to_class, per grouping when the classes are nested.
C9_ClassMapsInverse ==
    (mlast.op = "get" /\ mlast.arg = <<"num_to_class">>)
        => LET self == info[mlast.i]
               c2n == class_to_num(self)
           IN  /\ result.ok
               /\ c2n.ok
               /\ IF has_nested_dicts(self.metadata.classes)
                  THEN \A g \in DOMAIN result.value :
                          Inverse(result.value[g], c2n.value[g])
                  ELSE Inverse(result.value, c2n.value)

\* C10: constructing from a name that is not in the source table as given
\* but is after its hyphens are replaced by underscores succeeds, the
\* object's name is the underscored form, and the object equals the one
\* constructed from the underscored form.
C10_HyphenatedNameResolves ==
    (/\ mlast.op = "new"
     /\ mlast.arg \notin DOMAIN public_sources
     /\ replace_hyphens(mlast.arg) \in DOMAIN public_sources)
        => LET other == load_source_info(replace_hyphens(mlast.arg))
           IN  /\ result.ok
               /\ info[mlast.i].name = replace_hyphens(mlast.arg)
               /\ other.ok
               /\ eq(info[mlast.i], other.value)

\* the name a construction resolves its argument to
Canonical(name) ==
    IF name \in DOMAIN public_sources THEN name ELSE replace_hyphens(name)

\* C11: constructing a DatasetMetadata from a name that is not in the
\* source table, neither as given nor with its hyphens replaced by
\* underscores, raises the ValueError whose message names the name and
\* carries the suggestion, and no registry object is produced.
C11_InvalidNameRejected ==
    [][(mlast'.op = "new" /\ Canonical(mlast'.arg) \notin DOMAIN public_sources)
          => /\ ~result'.ok
             /\ result'.exc.type = "ValueError"
             /\ result'.exc.msg = "Received invalid public source"
             /\ result'.exc.dataset = mlast'.arg
             /\ result'.exc.suggest = "public sources"
             /\ info' = info]_vars

\* a construction from a name that resolves to no record has failed
C11_Witness ==
    /\ mlast.op = "new"
    /\ Canonical(mlast.arg) \notin DOMAIN public_sources
    /\ ~result.ok

\* C12: constructing from a name that is in the source table and not in
\* the citation table succeeds, and license and citation both read as None.
C12_MissingCitationDefaults ==
    (/\ mlast.op = "new"
     /\ Canonical(mlast.arg) \in DOMAIN public_sources
     /\ Canonical(mlast.arg) \notin DOMAIN citation_sources)
        => /\ result.ok
           /\ citation_field(info[mlast.i], "license") = Ok(Absent)
           /\ citation_field(info[mlast.i], "citation") = Ok(Absent)

\* C13: no operation of the registry (construction, a derived property, a
\* raw attribute or item lookup) lets a bare KeyError reach the caller: a
\* KeyError names the dataset and the missing key.
C13_NoRawKeyError ==
    (~result.ok /\ result.exc.type = "KeyError")
        => /\ result.exc.msg = "is missing metadata"
           /\ result.exc.dataset # <<>>
           /\ result.exc.key # ""

\* C14: license and citation read as None when the field of the citation
\* record is the empty string, and as the stored string when it is not.
C14_EmptyCitationIsNone ==
    (mlast.op \in {"get", "getitem"} /\ mlast.arg[1] \in {"license", "citation"})
        => LET stored == info[mlast.i].citation_meta[mlast.arg[1]]
           IN  /\ result.ok
               /\ result.value.none = (stored = "")
               /\ ~result.value.none => result.value.s = stored /\ stored # ""

\* a field stored as the empty string was read as None
C14_Witness ==
    /\ mlast.op = "get"
    /\ mlast.arg[1] \in {"license", "citation"}
    /\ info[mlast.i].citation_meta[mlast.arg[1]] = ""
    /\ result.ok
    /\ result.value.none

\* C15: two DatasetMetadata are equal exactly when their names are equal,
\* whatever their tables hold, and a DatasetMetadata is not equal to the
\* str of its own name.
C15_EqualityByName ==
    /\ mlast.op = "eq"
          => result.value = (info[mlast.i].name = info[mlast.other].name)
    /\ mlast.op = "eq_str" => result.value = FALSE

\* two objects of one name whose attribute tables differ compared equal
C15_Witness ==
    /\ mlast.op = "eq"
    /\ mlast.i # mlast.other
    /\ info[mlast.i].name = info[mlast.other].name
    /\ info[mlast.i].metadata # info[mlast.other].metadata
    /\ result.value = TRUE

\* the keys of the attribute table that are also the name of a property
\* with a derived value
DerivedKeys == {"location", "classes"}

\* C20: info.k and info[k] both return the raw value of the attribute table
\* for a key k that is no property, both return the derived value of the
\* property for a key that is one (location, classes), and both raise the
\* AttributeError with the suggestion over the table's keys for a name that
\* is neither.
C20_AttributeAndItemLookup ==
    (mlast.op \in {"get", "getitem"})
        => LET self == info[mlast.i]
               k == mlast.arg[1]
           IN  /\ (k \in DOMAIN self.metadata /\ k \notin Properties)
                     => result.ok /\ result.value = self.metadata[k]
               /\ (k \in DOMAIN self.metadata /\ k \in DerivedKeys)
                     => /\ result.ok
                        /\ result.value # self.metadata[k]
                        /\ k = "location" =>
                              result.value = [continent |-> item(self.metadata[k], "continent"),
                                              country |-> item(self.metadata[k], "country")]
                        /\ k = "classes" => result.value.type \in {"list", "dict"}
               /\ (k \notin DOMAIN self.metadata /\ k \notin Properties)
                     => /\ ~result.ok
                        /\ result.exc.type = "AttributeError"
                        /\ result.exc.msg = "Received invalid info parameter"
                        /\ result.exc.key = k
                        /\ result.exc.suggest = "metadata keys"

\* an item lookup returned the raw value of a key that is no property
C20_Witness ==
    /\ mlast.op = "getitem"
    /\ mlast.arg[1] = "stats"
    /\ result.ok
    /\ result.value = info[mlast.i].metadata.stats

\* the last operation constructed from a name that is in the source table
\* only with its hyphens replaced by underscores
ViaFallback ==
    /\ mlast.op = "new"
    /\ mlast.arg \notin DOMAIN public_sources
    /\ replace_hyphens(mlast.arg) \in DOMAIN public_sources

\* the outcome of a construction whose citation lookup is made under key
CitationLookedUpAs(key) ==
    IF key \in DOMAIN citation_sources
    THEN result.ok /\ info[mlast.i].citation_meta = citation_sources[key]
    ELSE ~result.ok /\ result.exc.type = "KeyError" /\ result.exc.dataset = key

\* C21 as stated: a construction from a hyphenated name that resolves
\* through the fallback looks the citation up under the name as given.
C21_CitationByInputName == ViaFallback => CitationLookedUpAs(mlast.arg)

\* C21: a construction from a hyphenated name that resolves through the
\* fallback looks the citation up under the underscored name the source
\* table resolved to; the citation table has no fallback of its own, so an
\* underscored name it lacks raises KeyError.
C21_CitationByCanonicalName ==
    ViaFallback => CitationLookedUpAs(replace_hyphens(mlast.arg))

\* a-b was constructed and carries the citation record of a_b
C21_Witness ==
    /\ ViaFallback
    /\ mlast.arg = <<"a", "-", "b">>
    /\ result.ok
    /\ info[mlast.i].citation_meta = citation_sources[<<"a", "_", "b">>]

\* C22: after construction the canonical name, the attribute table and the
\* citation table of a DatasetMetadata are the ones the tables hold for its
\* name, whatever reads, lookups and uses of the data property came after.
C22_TablesImmutable ==
    \A i \in MetaSlots :
        info[i] # NoInfo
            => /\ info[i].name \in DOMAIN public_sources
               /\ info[i].metadata = public_sources[info[i].name]
               /\ info[i].citation_meta = citation_sources[info[i].name]

\* C23: a DatasetMetadata constructed from an existing DatasetMetadata has
\* the canonical name of that object and is equal to it, whatever name the
\* existing object was constructed from and whatever was done to it since.
C23_ConstructFromInstance ==
    [][mlast'.op = "new_from"
          => /\ result'.ok
             /\ info'[mlast'.i].name = info[mlast'.other].name
             /\ eq(info'[mlast'.i], info[mlast'.other])]_vars

\* an object was constructed from another object of the registry whose
\* attribute table had been edited: the two are equal and share the
\* underscored name, and the new one has the table of the source table
C23_Witness ==
    /\ mlast.op = "new_from"
    /\ mlast.i # mlast.other
    /\ result.ok
    /\ info[mlast.i].name = <<"a", "_", "b">>
    /\ info[mlast.i].name = info[mlast.other].name
    /\ info[mlast.i].metadata # info[mlast.other].metadata

\* C27: location reads continent and country, and image_stats reads mean
\* and std, as the values stored under those keys of the nested mapping of
\* the record, in whatever order the mapping holds its two keys.
C27_PairsReadByKey ==
    (mlast.op \in {"get", "getitem"} /\ result.ok)
        => LET self == info[mlast.i]
           IN  /\ mlast.arg[1] = "location"
                     => /\ result.value.continent = item(self.metadata.location, "continent")
                        /\ result.value.country = item(self.metadata.location, "country")
               /\ mlast.arg[1] = "image_stats"
                     => /\ result.value.mean = item(self.metadata.stats, "mean")
                        /\ result.value.std = item(self.metadata.stats, "std")

====
